---- MODULE Spec2Model ----
(***************************************************************************)
(* A model of src/main.rs: cp, the parallel ranged file copy, its worker   *)
(* threads, the mpsc progress channel and report_status, the renderer.     *)
(*                                                                         *)
(* Offsets are 0-based as in the code; the files are sequences, so the     *)
(* byte at offset o of a file f is f[o + 1].                               *)
(***************************************************************************)
EXTENDS Integers, Sequences, FiniteSets, TLC

\* ------------------------------------------------------------------ bounds
\* Largest source file length explored by Spec.
MaxSize == 3
\* Largest --thread-count explored by Spec (0 is explored too).
MaxThreads == 2
\* Largest --buffer-size explored by Spec.
MaxBuffer == 3
\* The bounds of PlanSpec, which runs the planning prefix of cp only.
MaxPlanSize == 12
MaxPlanThreads == 8
MaxPlanBuffer == 4
\* The terminal of Spec: its width and the line its cursor is on.
Cols == 7
CursorRow == 1
\* RenderSpec: the source is at most MaxRenderSize bytes long and the terminal
\* at most MaxRenderCols columns wide.
MaxRenderSize == 11
MaxRenderCols == 55

\* The source file of a given length. cp never inspects a byte it copies, so
\* one content decides for all: each byte is its own 1-based position, which
\* makes every byte differ from every other and from 0, what a hole of the
\* target reads as. A misplaced, missing or repeated byte therefore shows.
SourceOfLen(len) == [k \in 1 .. len |-> k]
\* What a target left behind by an earlier run holds before cp opens it.
StaleBytes == <<9>>

VARIABLES
    \* inputs: the source file and the Config
    source,                  \* content of the source file
    thread_count,            \* config.thread_count
    config_buffer_size,      \* config.buffer_size, as requested
    terminal,                \* the terminal cp runs in: its number of columns
                             \* and where its cursor is when cp is called
    \* the orchestrating thread, cp
    cpc,                     \* position of cp
    result,                  \* how cp ended: "none", "ok", "err", "panic"
    source_opened,           \* the source handle has been opened
    target_opened,           \* the target has been created/truncated
    target,                  \* content of the target file
    source_file_len,         \* source_file.metadata()?.len()
    total_bytes_per_thread,
    buffer_size,             \* the shadowed, effective buffer size
    spawn_i,                 \* the i of `for i in 0..thread_count`
    tx_alive,                \* cp's own Sender has not been dropped
    rx_alive,                \* the Receiver has not been dropped
    queue,                   \* the channel's buffered Status values
    join_i,                  \* how many join handles have been joined
    \* worker threads, each a function of the thread index
    wpc,                     \* position of the thread
    offset,
    last_byte_index_to_read,
    bytes_read,
    bytes_written,
    buffer,
    \* report_status
    rpc,                     \* position of report_status, see ReportEnter
    cursor_hidden,           \* the terminal's cursor is hidden
    position_saved,          \* a saved cursor position is pending restore
    terminal_col_count,      \* terminal::size()?.0
    col,                     \* cursor::position()?.0
    row,                     \* cursor::position()?.1
    \* history, not read by any guard
    fault,                   \* per thread: why it stopped early, if it did
    reads,                   \* per thread: offsets its read_at calls covered
    writes,                  \* per thread: offsets its write_at calls covered
    io_after_fault,          \* per thread: it issued I/O after it had stopped
    short_write,             \* per thread: a write_at stored less than given
    sent,                    \* per thread: the Status values sent, in order
    stored,                  \* per thread: [offset, count] of each write_at
                             \* that returned Ok, in order
    consumed,                \* the Status values the renderer has received
    drawn                    \* [col, row, count] of each turn that printed

vars == <<source, thread_count, config_buffer_size, terminal, cpc, result, source_opened,
          target_opened, target, source_file_len, total_bytes_per_thread,
          buffer_size, spawn_i, tx_alive, rx_alive, queue, join_i, wpc, offset,
          last_byte_index_to_read, bytes_read, bytes_written, buffer, rpc,
          cursor_hidden, position_saved, terminal_col_count, col, row, fault,
          reads, writes, io_after_fault, short_write, sent, stored, consumed,
          drawn>>

cpVars == <<cpc, result, source_opened, target_opened, source_file_len,
            total_bytes_per_thread, buffer_size, spawn_i, tx_alive, join_i>>
inputVars == <<source, thread_count, config_buffer_size, terminal>>
workerVars == <<wpc, offset, last_byte_index_to_read, bytes_read, bytes_written,
                buffer, fault, reads, writes, io_after_fault, short_write, sent,
                stored>>
rendererVars == <<terminal_col_count, col, row, drawn>>
terminalVars == <<cursor_hidden, position_saved, rendererVars>>

\* ----------------------------------------------------------------- helpers
Min(a, b) == IF a < b THEN a ELSE b
Max(a, b) == IF a > b THEN a ELSE b

Threads == 0 .. (thread_count - 1)

\* Status::new(thread_idx, bytes_written, offset); the timestamp is not read.
\* (StatusOffsetAfterWrite is the faulty variant that reports the offset the
\* write ended at.)
StatusOffsetAfterWrite(i, n, o) ==
    [thread_idx |-> i, bytes_written |-> n, offset |-> o + n]
Status(i, n, o) == [thread_idx |-> i, bytes_written |-> n, offset |-> o]

\* ------------------------------------------------------------ pure planning
\* source_file_len.checked_div(thread_count as u64).unwrap(), thread_count > 0
TotalBytesPerThread(len, count) == len \div count

\* buffer_size.min(total_bytes_per_thread as usize)
\* (EffectiveBufferSizeMax is the faulty variant that takes the larger.)
EffectiveBufferSizeMax(requested, per_thread) == Max(requested, per_thread)
EffectiveBufferSize(requested, per_thread) == Min(requested, per_thread)

\* let mut offset = i as u64 * total_bytes_per_thread
StartOffset(i) == i * total_bytes_per_thread

\* if i == thread_count - 1 { source_file_len } else { (i + 1) * per_thread }
\* (LastByteIndexNoRemainder is the faulty variant without the last thread's
\* remainder.)
LastByteIndexNoRemainder(i) == (i + 1) * total_bytes_per_thread
LastByteIndexToRead(i) ==
    IF i = thread_count - 1
    THEN source_file_len
    ELSE (i + 1) * total_bytes_per_thread

\* cmp::min(buffer_size as i64, last_byte_index_to_read as i64 - offset as i64)
\* before the cast to usize
\* (BytesToReadToEof is the faulty variant bounded by the file, not the range.)
BytesToReadToEof(i) == Min(buffer_size, source_file_len - offset[i])
BytesToRead(i) == Min(buffer_size, last_byte_index_to_read[i] - offset[i])

\* ------------------------------------------------------------------- files
\* What OpenOptions .write(true).create(true).truncate(true) leaves of a file.
\* (OpenKeepContent is the faulty variant without truncate.)
OpenKeepContent(file) == file
OpenTruncate(file) == <<>>

\* The bytes read_at(&mut buffer[0..n], o) stores: source[o .. o + n).
ReadAt(i, n) ==
    [k \in DOMAIN buffer[i] |->
        IF k < n THEN source[offset[i] + k + 1] ELSE buffer[i][k]]

\* The file after write_at has stored the first n bytes of buffer at offset o;
\* a write past the end extends the file, the gap reading as 0.
WriteAt(file, buf, n, o) ==
    IF n = 0 THEN file
    ELSE [k \in 1 .. Max(Len(file), o + n) |->
            IF k > o /\ k <= o + n THEN buf[k - o - 1]
            ELSE IF k <= Len(file) THEN file[k] ELSE 0]

\* ----------------------------------------------------------------- channel
\* mpsc: a Sender lives in cp until drop(tx), and in each spawned thread
\* until the thread ends, by return or by unwinding.
Running(i) == wpc[i] \in {"loop", "write", "send"}
Terminated(i) == wpc[i] \in {"done", "panicked"}
SendersAlive == tx_alive \/ \E i \in Threads : Running(i)

\* Receiver::recv() returns Err: the queue is empty and every Sender is gone.
\* (ChannelClosedIgnoringThreads is the faulty variant that counts cp's own
\* Sender only.)
ChannelClosedIgnoringThreads == queue = <<>> /\ ~tx_alive
ChannelClosed == queue = <<>> /\ ~SendersAlive

\* Sender::send on a live channel: the value goes to the back of the queue.
\* (EnqueueFront is the faulty variant, a stack.)
EnqueueFront(q, s) == <<s>> \o q
Enqueue(q, s) == Append(q, s)

\* -------------------------------------------------------------------- Init
\* The state when cp is called, for a source of a length in sizes, a
\* thread_count of counts and a buffer_size of buffers, in one of terminals.
InitWith(sizes, counts, buffers, terminals) ==
    /\ \E len \in sizes : source = SourceOfLen(len)
    /\ thread_count \in counts
    /\ config_buffer_size \in buffers
    /\ terminal \in terminals
    /\ cpc = "open_source"
    /\ result = "none"
    /\ source_opened = FALSE
    /\ target_opened = FALSE
    /\ target = StaleBytes
    /\ source_file_len = 0
    /\ total_bytes_per_thread = 0
    /\ buffer_size = 0
    /\ spawn_i = 0
    /\ tx_alive = FALSE
    /\ rx_alive = FALSE
    /\ queue = <<>>
    /\ join_i = 0
    /\ wpc = [i \in Threads |-> "unspawned"]
    /\ offset = [i \in Threads |-> 0]
    /\ last_byte_index_to_read = [i \in Threads |-> 0]
    /\ bytes_read = [i \in Threads |-> 0]
    /\ bytes_written = [i \in Threads |-> 0]
    /\ buffer = [i \in Threads |-> <<>>]
    /\ rpc = "idle"
    /\ cursor_hidden = FALSE
    /\ position_saved = FALSE
    /\ terminal_col_count = 0
    /\ col = 0
    /\ row = 0
    /\ fault = [i \in Threads |-> "none"]
    /\ reads = [i \in Threads |-> {}]
    /\ writes = [i \in Threads |-> {}]
    /\ io_after_fault = [i \in Threads |-> FALSE]
    /\ short_write = [i \in Threads |-> FALSE]
    /\ sent = [i \in Threads |-> <<>>]
    /\ stored = [i \in Threads |-> <<>>]
    /\ consumed = <<>>
    /\ drawn = <<>>

\* A terminal Cols columns wide with the cursor at the start of line CursorRow.
Terminals == [cols : {Cols}, col : {0}, row : {CursorRow}]

Init == InitWith(0 .. MaxSize, 0 .. MaxThreads, 1 .. MaxBuffer, Terminals)

\* ---------------------------------------------------------------------- cp
\* End cp: with an io::Error through `?`, or by a panic of its own thread.
\* The Sender and the Receiver cp still owns are dropped with its frame.
CpEnds(how) ==
    /\ cpc' = "done"
    /\ result' = how
    /\ tx_alive' = FALSE
    /\ rx_alive' = FALSE
    /\ queue' = <<>>

\* fs::OpenOptions::new().read(true).open(source)? and .metadata()?.len()
OpenSource ==
    /\ cpc = "open_source"
    /\ \E outcome \in {"ok", "open_err", "metadata_err"} :
        /\ source_opened' = (outcome # "open_err")
        /\ IF outcome = "ok"
           THEN /\ source_file_len' = Len(source)
                /\ cpc' = "open_target"
                /\ UNCHANGED <<result, tx_alive, rx_alive, queue>>
           ELSE /\ CpEnds("err")
                /\ UNCHANGED source_file_len
    /\ UNCHANGED <<inputVars, workerVars, terminalVars, target_opened, target,
                   total_bytes_per_thread, buffer_size, spawn_i, join_i, rpc,
                   consumed>>

\* OpenOptions .write(true).create(true).truncate(true).open(target)?
OpenTarget ==
    /\ cpc = "open_target"
    /\ \E outcome \in {"ok", "open_err"} :
        IF outcome = "ok"
        THEN /\ target_opened' = TRUE
             /\ target' = OpenTruncate(target)
             /\ cpc' = "plan"
             /\ UNCHANGED <<result, tx_alive, rx_alive, queue>>
        ELSE /\ CpEnds("err")
             /\ UNCHANGED <<target_opened, target>>
    /\ UNCHANGED <<inputVars, workerVars, terminalVars, source_opened,
                   source_file_len, total_bytes_per_thread, buffer_size, spawn_i,
                   join_i, rpc, consumed>>

\* checked_div(thread_count).unwrap(), the effective buffer size, and
\* mpsc::channel(): a thread_count of 0 makes checked_div None and unwrap panic.
Plan ==
    /\ cpc = "plan"
    /\ IF thread_count = 0
       THEN /\ CpEnds("panic")
            /\ UNCHANGED <<total_bytes_per_thread, buffer_size>>
       ELSE /\ total_bytes_per_thread' =
                    TotalBytesPerThread(source_file_len, thread_count)
            /\ buffer_size' =
                    EffectiveBufferSize(config_buffer_size,
                        TotalBytesPerThread(source_file_len, thread_count))
            /\ cpc' = "spawn"
            /\ tx_alive' = TRUE
            /\ rx_alive' = TRUE
            /\ UNCHANGED <<result, queue>>
    /\ UNCHANGED <<inputVars, workerVars, terminalVars, source_opened,
                   target_opened, target, source_file_len, spawn_i, join_i, rpc,
                   consumed>>

\* One turn of `for i in 0..thread_count`: tx.clone() and thread::spawn; the
\* thread starts with its buffer, offset and last_byte_index_to_read set.
Spawn(i) ==
    /\ cpc = "spawn"
    /\ spawn_i = i
    /\ i < thread_count
    /\ spawn_i' = i + 1
    /\ wpc' = [wpc EXCEPT ![i] = "loop"]
    /\ buffer' = [buffer EXCEPT ![i] = [k \in 0 .. (buffer_size - 1) |-> 0]]
    /\ offset' = [offset EXCEPT ![i] = StartOffset(i)]
    /\ last_byte_index_to_read' =
            [last_byte_index_to_read EXCEPT ![i] = LastByteIndexToRead(i)]
    /\ UNCHANGED <<inputVars, terminalVars, cpc, result, source_opened,
                   target_opened, target, source_file_len, total_bytes_per_thread,
                   buffer_size, tx_alive, rx_alive, queue, join_i, bytes_read,
                   bytes_written, fault, reads, writes, io_after_fault,
                   short_write, sent, stored, rpc, consumed>>

\* drop(tx), after the last spawn; cp then calls report_status(rx, ..).
\* (KeepTx is the faulty variant that calls report_status with tx still alive.)
KeepTx ==
    /\ cpc = "spawn"
    /\ spawn_i = thread_count
    /\ cpc' = "report"
    /\ UNCHANGED <<inputVars, workerVars, terminalVars, result, source_opened,
                   target_opened, target, source_file_len, total_bytes_per_thread,
                   buffer_size, spawn_i, tx_alive, rx_alive, queue, join_i, rpc,
                   consumed>>
DropTx ==
    /\ cpc = "spawn"
    /\ spawn_i = thread_count
    /\ tx_alive' = FALSE
    /\ cpc' = "report"
    /\ UNCHANGED <<inputVars, workerVars, terminalVars, result, source_opened,
                   target_opened, target, source_file_len, total_bytes_per_thread,
                   buffer_size, spawn_i, rx_alive, queue, join_i, rpc, consumed>>

\* One turn of `for jh in join_handles { let _ = jh.join(); }`: join returns
\* once the thread has ended, and its Result is discarded.
Join(i) ==
    /\ cpc = "join"
    /\ join_i = i
    /\ i < thread_count
    /\ Terminated(i)
    /\ join_i' = i + 1
    /\ UNCHANGED <<inputVars, workerVars, terminalVars, cpc, result, source_opened,
                   target_opened, target, source_file_len, total_bytes_per_thread,
                   buffer_size, spawn_i, tx_alive, rx_alive, queue, rpc, consumed>>

\* Ok(()) after the last join.
Return ==
    /\ cpc = "join"
    /\ join_i = thread_count
    /\ cpc' = "done"
    /\ result' = "ok"
    /\ UNCHANGED <<inputVars, workerVars, terminalVars, source_opened,
                   target_opened, target, source_file_len, total_bytes_per_thread,
                   buffer_size, spawn_i, tx_alive, rx_alive, queue, join_i, rpc,
                   consumed>>

\* ------------------------------------------------------------------ workers
\* Where a thread is after .unwrap() met an Err: the panic unwinds the thread.
\* (PcRetryAfterError is the faulty variant that goes round the loop again.)
PcRetryAfterError(i) == "loop"
PcAfterUnwrapErr(i) == "panicked"

\* Top of the loop: bytes_to_read, the two breaks, and read_at(..).unwrap().
\* A negative difference cast to usize is huge, so the slice
\* buffer[0..bytes_to_read] panics. read_at returns an error, or a count from
\* 0 to bytes_to_read that does not pass the end of the file. The outcome -1
\* stands for Err, here and in WorkerWrite.
WorkerRead(i) ==
    /\ wpc[i] = "loop"
    /\ LET n == BytesToRead(i)
           avail == Max(0, Len(source) - offset[i])
       IN  IF n = 0
           THEN /\ wpc' = [wpc EXCEPT ![i] = "done"]
                /\ UNCHANGED <<bytes_read, buffer, fault, reads, io_after_fault>>
           ELSE IF n < 0
           THEN /\ wpc' = [wpc EXCEPT ![i] = "panicked"]
                /\ fault' = [fault EXCEPT ![i] = "slice"]
                /\ UNCHANGED <<bytes_read, buffer, reads, io_after_fault>>
           ELSE /\ reads' = [reads EXCEPT
                                ![i] = @ \cup (offset[i] .. (offset[i] + n - 1))]
                /\ io_after_fault' =
                        [io_after_fault EXCEPT ![i] = @ \/ fault[i] # "none"]
                /\ \E outcome \in (-1) .. Min(n, avail) :
                    CASE outcome = -1 ->
                            /\ wpc' = [wpc EXCEPT ![i] = PcAfterUnwrapErr(i)]
                            /\ fault' = [fault EXCEPT ![i] = "read_err"]
                            /\ UNCHANGED <<bytes_read, buffer>>
                      [] outcome = 0 ->
                            /\ wpc' = [wpc EXCEPT ![i] = "done"]
                            /\ fault' = [fault EXCEPT ![i] = "eof"]
                            /\ bytes_read' = [bytes_read EXCEPT ![i] = 0]
                            /\ UNCHANGED buffer
                      [] OTHER ->
                            /\ wpc' = [wpc EXCEPT ![i] = "write"]
                            /\ bytes_read' = [bytes_read EXCEPT ![i] = outcome]
                            /\ buffer' = [buffer EXCEPT ![i] = ReadAt(i, outcome)]
                            /\ UNCHANGED fault
    /\ UNCHANGED <<inputVars, cpVars, terminalVars, target, rx_alive, queue,
                   offset, last_byte_index_to_read, bytes_written, writes,
                   short_write, sent, stored, rpc, consumed>>

\* write_at(&buffer[0..bytes_read], offset).unwrap(): an error, or the count
\* of bytes stored, which may be short of bytes_read.
WorkerWrite(i) ==
    /\ wpc[i] = "write"
    /\ writes' = [writes EXCEPT
                    ![i] = @ \cup (offset[i] .. (offset[i] + bytes_read[i] - 1))]
    /\ io_after_fault' = [io_after_fault EXCEPT ![i] = @ \/ fault[i] # "none"]
    /\ \E outcome \in (-1) .. bytes_read[i] :
        IF outcome = -1
        THEN /\ wpc' = [wpc EXCEPT ![i] = PcAfterUnwrapErr(i)]
             /\ fault' = [fault EXCEPT ![i] = "write_err"]
             /\ UNCHANGED <<target, bytes_written, short_write, stored>>
        ELSE /\ wpc' = [wpc EXCEPT ![i] = "send"]
             /\ stored' = [stored EXCEPT
                    ![i] = Append(@, [offset |-> offset[i], count |-> outcome])]
             /\ target' = WriteAt(target, buffer[i], outcome, offset[i])
             /\ bytes_written' = [bytes_written EXCEPT ![i] = outcome]
             /\ short_write' =
                    [short_write EXCEPT ![i] = @ \/ outcome < bytes_read[i]]
             /\ UNCHANGED fault
    /\ UNCHANGED <<inputVars, cpVars, terminalVars, rx_alive, queue, offset,
                   last_byte_index_to_read, bytes_read, buffer, reads, sent, rpc,
                   consumed>>

\* thread_tx.send(Status::new(i, bytes_written, offset)).unwrap() and
\* offset += bytes_read: send is Err once the Receiver has been dropped.
WorkerSend(i) ==
    /\ wpc[i] = "send"
    /\ IF rx_alive
       THEN /\ queue' = Enqueue(queue, Status(i, bytes_written[i], offset[i]))
            /\ sent' = [sent EXCEPT
                            ![i] = Append(@, Status(i, bytes_written[i], offset[i]))]
            /\ offset' = [offset EXCEPT ![i] = @ + bytes_read[i]]
            /\ wpc' = [wpc EXCEPT ![i] = "loop"]
            /\ UNCHANGED fault
       ELSE /\ wpc' = [wpc EXCEPT ![i] = PcAfterUnwrapErr(i)]
            /\ fault' = [fault EXCEPT ![i] = "send_err"]
            /\ UNCHANGED <<queue, offset, sent>>
    /\ UNCHANGED <<inputVars, cpVars, terminalVars, target, rx_alive,
                   last_byte_index_to_read, bytes_read, bytes_written, buffer,
                   reads, writes, io_after_fault, short_write, stored, rpc,
                   consumed>>

\* ------------------------------------------------------- f64 arithmetic
\* report_status computes in f64: terminal_col_count as f64 *
\* (x as f64 / source_file_len as f64), cast back to an integer. An f64 is
\* modelled as IEEE 754 binary64 rounds it: [m, e] stands for a 53-bit
\* significand m whose leading bit is worth 2^e, and the quotient and the
\* product are each rounded to nearest, ties to even. The significand is
\* kept as five digits, the leading bit and four digits of 13 bits, most
\* significant first, so that every step fits 32-bit integers: this holds
\* for a divisor below 2^17 and a factor below 2^16 (a u16), and the
\* operands, being integers that small, are exact as f64.
Base == 8192

\* 2^k
RECURSIVE Pow2(_)
Pow2(k) == IF k = 0 THEN 1 ELSE 2 * Pow2(k - 1)

\* The number of doublings that bring n up to d at least (0 < n <= d).
RECURSIVE Shift(_, _)
Shift(n, d) == IF n >= d THEN 0 ELSE 1 + Shift(2 * n, d)

\* The number of binary digits of c > 0.
RECURSIVE BitLength(_)
BitLength(c) == IF c <= 1 THEN 1 ELSE 1 + BitLength(c \div 2)

\* Long division by d of the number whose digits are r (less than d)
\* followed by ds: the digits of the quotient ...
RECURSIVE QuotDigits(_, _, _)
QuotDigits(r, ds, d) ==
    IF ds = <<>> THEN <<>>
    ELSE LET v == r * Base + Head(ds)
         IN  <<v \div d>> \o QuotDigits(v % d, Tail(ds), d)

\* ... and the remainder.
RECURSIVE QuotRem(_, _, _)
QuotRem(r, ds, d) ==
    IF ds = <<>> THEN r
    ELSE QuotRem((r * Base + Head(ds)) % d, Tail(ds), d)

\* m + 1 in the last place: the lowest digit that is not Base - 1 goes up
\* and the digits below it become 0; all 0 when the carry runs off the top.
IncDigits(m) ==
    LET room == {k \in 2 .. Len(m) : m[k] # Base - 1}
        z == IF room = {} THEN 0 ELSE CHOOSE k \in room : \A j \in room : j <= k
    IN  [k \in 1 .. Len(m) |->
            IF k < z THEN m[k] ELSE IF k = z THEN m[k] + 1 ELSE 0]

\* The f64 nearest to significand m with leading exponent e, given whether
\* what was cut off is above half, exactly half, or below half a unit.
RoundF64(m, e, above_half, exactly_half) ==
    IF above_half \/ (exactly_half /\ m[Len(m)] % 2 = 1)
    THEN LET up == IncDigits(m)
         IN  IF up[1] = 0
             THEN [m |-> [up EXCEPT ![1] = 1], e |-> e + 1]
             ELSE [m |-> up, e |-> e]
    ELSE [m |-> m, e |-> e]

\* The one element of a set of one element. Binding a value as the element
\* of such a set has it computed once, however often it is then used.
TheOne(S) == CHOOSE v \in S : TRUE

\* n as f64 / d as f64, for 0 < n <= d.
F64Div(n, d) ==
    LET s == Shift(n, d)
        zeros == <<0, 0, 0, 0>>
    IN  TheOne({RoundF64(m, 0 - s, 2 * rest > d, 2 * rest = d) :
                    m \in {<<1>> \o QuotDigits(n * Pow2(s) - d, zeros, d)},
                    rest \in {QuotRem(n * Pow2(s) - d, zeros, d)}})

\* The exact product of the digits m[1 .. k] and w, carry coming from the
\* digits below k; the leading digit takes what is left of the carry.
RECURSIVE MulDigits(_, _, _, _)
MulDigits(m, k, w, carry) ==
    LET v == m[k] * w + carry
    IN  IF k = 1 THEN <<v>>
        ELSE MulDigits(m, k - 1, w, v \div Base) \o <<v % Base>>

\* w as f64 * x, for an integer w > 0 and an f64 x: the exact product is cut
\* back to 53 bits and rounded.
F64MulInt(w, x) ==
    TheOne({LET extra == BitLength(p[1]) - 1
                q == Pow2(extra)
                top == p[1] % q
            IN  TheOne({RoundF64(m, x.e + extra, 2 * rest > q, 2 * rest = q) :
                            m \in {<<1>> \o QuotDigits(top, Tail(p), q)},
                            rest \in {QuotRem(top, Tail(p), q)}}) :
                p \in {MulDigits(x.m, Len(x.m), w, 0)}})

\* x as u16: the fraction is dropped, and the cast saturates.
F64AsU16(x) ==
    IF x.e < 0 THEN 0
    ELSE IF x.e >= 16 THEN 65535
    ELSE ((x.m[1] * Base + x.m[2]) * Base + x.m[3]) \div Pow2(26 - x.e)

\* (width as f64 * (part as f64 / whole as f64)) as an integer, for
\* part <= whole: both casts of report_status agree below 65536. A part of
\* 0 gives 0 whatever whole is (0.0 / 0.0 is NaN, and NaN casts to 0).
Scaled(width, part, whole) ==
    IF part = 0 \/ width = 0 THEN 0
    ELSE TheOne({F64AsU16(product) :
                    product \in {F64MulInt(width, quotient) :
                                    quotient \in {F64Div(part, whole)}}})

\* Scaled for every width and size of the specifications, computed once.
ScaledTable ==
    [width \in 0 .. Max(Cols, MaxRenderCols),
     part \in 0 .. Max(MaxSize, MaxRenderSize),
     whole \in 0 .. Max(MaxSize, MaxRenderSize) |->
        IF part <= whole THEN Scaled(width, part, whole) ELSE 0]

\* The column report_status moves to for a Status: col + (..) as u16, col
\* being a u16 too (the sum stays far below 65536 here).
DrawColumn(status) ==
    col + ScaledTable[terminal_col_count, status.offset, source_file_len]

\* The number of blocks it prints: count.max(1).
BlockCount(status) ==
    Max(1, ScaledTable[terminal_col_count, status.bytes_written,
                       source_file_len])

\* ------------------------------------------------------------ report_status
\* rpc: "idle" (not called), "loop" (in `for status in rx`), "closed" (the
\* loop ended because recv reported the channel closed), "interrupted" (a `?`
\* inside the loop returned), "refused" (a `?` before the loop returned).

\* terminal::size()?, execute(Hide)?, execute(SavePosition)?, position()?
ReportEnter ==
    /\ cpc = "report"
    /\ rpc = "idle"
    /\ \E outcome \in {"ok", "size_err", "hide_err", "save_err", "position_err"} :
        /\ cursor_hidden' = (outcome \in {"ok", "save_err", "position_err"})
        /\ position_saved' = (outcome \in {"ok", "position_err"})
        /\ terminal_col_count' =
                IF outcome = "size_err" THEN terminal_col_count ELSE terminal.cols
        /\ col' = IF outcome = "ok" THEN terminal.col ELSE col
        /\ row' = IF outcome = "ok" THEN terminal.row ELSE row
        /\ IF outcome = "ok"
           THEN /\ rpc' = "loop"
                /\ UNCHANGED <<cpc, result, tx_alive, rx_alive, queue>>
           ELSE /\ rpc' = "refused"
                /\ CpEnds("err")
    /\ UNCHANGED <<inputVars, workerVars, source_opened, target_opened, target,
                   source_file_len, total_bytes_per_thread, buffer_size, spawn_i,
                   join_i, consumed, drawn>>

\* One turn of `for status in rx`: MoveTo(col, row)?, the blocks, flush()?
\* The blocks are printed unless MoveTo failed.
ReportRecv ==
    /\ rpc = "loop"
    /\ queue # <<>>
    /\ consumed' = Append(consumed, Head(queue))
    /\ \E outcome \in {"ok", "move_err", "flush_err"} :
        /\ drawn' = IF outcome = "move_err" THEN drawn
                     ELSE Append(drawn, [col |-> DrawColumn(Head(queue)),
                                         row |-> row,
                                         count |-> BlockCount(Head(queue))])
        /\ IF outcome = "ok"
           THEN /\ queue' = Tail(queue)
                /\ UNCHANGED <<cpc, result, tx_alive, rx_alive, rpc>>
           ELSE /\ rpc' = "interrupted"
                /\ CpEnds("err")
    /\ UNCHANGED <<inputVars, workerVars, cursor_hidden, position_saved,
                   terminal_col_count, col, row, source_opened,
                   target_opened, target, source_file_len, total_bytes_per_thread,
                   buffer_size, spawn_i, join_i>>

\* The loop ends on the closed channel; then execute(RestorePosition)?,
\* println!(), execute(Show)? and Ok(()), after which cp joins.
ReportClosed ==
    /\ rpc = "loop"
    /\ ChannelClosed
    /\ rpc' = "closed"
    /\ \E outcome \in {"ok", "restore_err", "show_err"} :
        /\ position_saved' = (outcome = "restore_err")
        /\ cursor_hidden' = (outcome # "ok")
        /\ IF outcome = "ok"
           THEN /\ cpc' = "join"
                /\ rx_alive' = FALSE
                /\ UNCHANGED <<result, tx_alive, queue>>
           ELSE CpEnds("err")
    /\ UNCHANGED <<inputVars, workerVars, rendererVars, source_opened,
                   target_opened, target, source_file_len, total_bytes_per_thread,
                   buffer_size, spawn_i, join_i, consumed>>

\* ---------------------------------------------------------- specifications
Worker(i) == WorkerRead(i) \/ WorkerWrite(i) \/ WorkerSend(i)

Next ==
    \/ OpenSource
    \/ OpenTarget
    \/ Plan
    \/ \E i \in Threads : Spawn(i)
    \/ DropTx
    \/ \E i \in Threads : WorkerRead(i)
    \/ \E i \in Threads : WorkerWrite(i)
    \/ \E i \in Threads : WorkerSend(i)
    \/ ReportEnter
    \/ ReportRecv
    \/ ReportClosed
    \/ \E i \in Threads : Join(i)
    \/ Return

Spec == Init /\ [][Next]_vars

\* The planning prefix of cp alone, on larger inputs: the threads are spawned
\* and not yet scheduled.
PlanInit ==
    InitWith(0 .. MaxPlanSize, 1 .. MaxPlanThreads, 1 .. MaxPlanBuffer, Terminals)

PlanNext ==
    \/ OpenSource
    \/ OpenTarget
    \/ Plan
    \/ \E i \in Threads : Spawn(i)

PlanSpec == PlanInit /\ [][PlanNext]_vars

\* report_status alone, on larger inputs, taken up in the middle of a copy by
\* one thread whose buffer holds the whole file of len bytes. The thread has
\* sent the Status of a write at offset o that stored n bytes; if o > 0, an
\* earlier turn read and wrote the o bytes before it, and the renderer has
\* drawn that Status. The Status of the write at o is in the channel.
RenderInitAt(len, o, n, term) ==
    LET got == Max(1, n)
        first == IF o = 0 THEN <<>> ELSE <<Status(0, o, 0)>>
        buf0 == [k \in 0 .. (len - 1) |-> IF k < o THEN k + 1 ELSE 0]
        buf1 == [k \in 0 .. (len - 1) |-> IF k < got THEN o + k + 1 ELSE buf0[k]]
    IN  /\ source = SourceOfLen(len)
        /\ thread_count = 1
        /\ config_buffer_size = len
        /\ terminal = term
        /\ cpc = "report"
        /\ result = "none"
        /\ source_opened = TRUE
        /\ target_opened = TRUE
        /\ target = WriteAt(WriteAt(OpenTruncate(StaleBytes), buf0, o, 0),
                            buf1, n, o)
        /\ source_file_len = len
        /\ total_bytes_per_thread = TotalBytesPerThread(len, 1)
        /\ buffer_size = EffectiveBufferSize(len, TotalBytesPerThread(len, 1))
        /\ spawn_i = 1
        /\ tx_alive = FALSE
        /\ rx_alive = TRUE
        /\ queue = <<Status(0, n, o)>>
        /\ join_i = 0
        /\ wpc = [i \in {0} |-> "loop"]
        /\ offset = [i \in {0} |-> o + got]
        /\ last_byte_index_to_read = [i \in {0} |-> len]
        /\ bytes_read = [i \in {0} |-> got]
        /\ bytes_written = [i \in {0} |-> n]
        /\ buffer = [i \in {0} |-> buf1]
        /\ rpc = "loop"
        /\ cursor_hidden = TRUE
        /\ position_saved = TRUE
        /\ terminal_col_count = term.cols
        /\ col = term.col
        /\ row = term.row
        /\ fault = [i \in {0} |-> "none"]
        /\ reads = [i \in {0} |-> 0 .. (len - 1)]
        /\ writes = [i \in {0} |-> 0 .. (o + got - 1)]
        /\ io_after_fault = [i \in {0} |-> FALSE]
        /\ short_write = [i \in {0} |-> n < got]
        /\ sent = [i \in {0} |-> first \o <<Status(0, n, o)>>]
        /\ stored = [i \in {0} |->
                        (IF o = 0 THEN <<>> ELSE <<[offset |-> 0, count |-> o]>>)
                            \o <<[offset |-> o, count |-> n]>>]
        /\ consumed = first
        /\ drawn = IF o = 0 THEN <<>>
                   ELSE <<[col |-> term.col, row |-> term.row,
                           count |-> Max(1, ScaledTable[term.cols, o, len])]>>

RenderTerminals == [cols : 1 .. MaxRenderCols, col : {0}, row : {CursorRow}]

RenderInit ==
    \E len \in 1 .. MaxRenderSize, term \in RenderTerminals :
        \E o \in 0 .. (len - 1) :
            \E n \in 0 .. (len - o) : RenderInitAt(len, o, n, term)

RenderNext == ReportRecv

RenderSpec == RenderInit /\ [][RenderNext]_vars

\* Threads are scheduled by the operating system and every call returns:
\* cp and each spawned thread keep taking steps while they can.
FairSpec ==
    /\ Spec
    /\ WF_vars(OpenSource \/ OpenTarget \/ Plan \/ DropTx \/ Return)
    /\ WF_vars(ReportEnter \/ ReportRecv \/ ReportClosed)
    /\ \A i \in 0 .. (MaxThreads - 1) :
            /\ WF_vars(Spawn(i))
            /\ WF_vars(Join(i))
            /\ WF_vars(i \in Threads /\ Worker(i))

\* ------------------------------------------------------------ the claims
\* The range [start, end) cp assigns to thread i.
Range(i) == StartOffset(i) .. (LastByteIndexToRead(i) - 1)
\* Thread i was stopped by an Err of read_at or write_at.
IoFailed(i) == fault[i] \in {"read_err", "write_err"}
\* The Status values the renderer received from thread i, in order.
ConsumedFrom(i) == SelectSeq(consumed, LAMBDA st : st.thread_idx = i)
IsPrefix(a, b) == Len(a) <= Len(b) /\ \A k \in 1 .. Len(a) : a[k] = b[k]
StrictlyIncreasingOffsets(q) ==
    \A k \in 1 .. (Len(q) - 1) : q[k].offset < q[k + 1].offset

\* C1: after cp has run to completion on a source of at least one byte, with
\* 1..8 threads and a requested buffer of 1..total_size, no I/O error, no
\* zero-byte read (and every write storing all it was given), the target is
\* byte for byte the source, and as long.
C1_RoundTrip ==
    ( /\ cpc = "done"
      /\ result = "ok"
      /\ Len(source) >= 1
      /\ thread_count \in 1 .. 8
      /\ config_buffer_size \in 1 .. Len(source)
      /\ \A i \in Threads : fault[i] = "none" /\ ~short_write[i] )
    => target = source

\* C2: with a thread_count of 0, cp fails while the target is still untouched
\* (neither created nor truncated) and no thread has been spawned.
C2_ZeroThreadsRejectedBeforeOpen ==
    (thread_count = 0 /\ result # "none")
    => (~target_opened /\ target = StaleBytes /\ spawn_i = 0)

\* C3: once every thread is spawned, the ranges [offset, last_byte_index_to_read)
\* the threads start with partition [0, source_file_len): the first starts at
\* 0, each ends where the next starts, the last ends at source_file_len, and
\* every offset of the file lies in exactly one range; 10 bytes over 3 threads
\* give [0,3), [3,6), [6,10).
C3_RangesPartition ==
    (cpc = "spawn" /\ spawn_i = thread_count)
    => /\ offset[0] = 0
       /\ last_byte_index_to_read[thread_count - 1] = source_file_len
       /\ \A i \in Threads : offset[i] <= last_byte_index_to_read[i]
       /\ \A i \in Threads :
            i < thread_count - 1 => last_byte_index_to_read[i] = offset[i + 1]
       /\ \A o \in 0 .. (source_file_len - 1) :
            Cardinality({i \in Threads :
                offset[i] <= o /\ o < last_byte_index_to_read[i]}) = 1
       /\ (source_file_len = 10 /\ thread_count = 3)
            => /\ offset = [i \in Threads |-> 3 * i]
               /\ last_byte_index_to_read = (0 :> 3) @@ (1 :> 6) @@ (2 :> 10)

\* C3 witness: all three threads of the 10-byte example are spawned.
C3_Witness ==
    /\ cpc = "spawn"
    /\ spawn_i = thread_count
    /\ source_file_len = 10
    /\ thread_count = 3

\* C4: every read_at and every write_at of thread i covers offsets of its own
\* range only, so no offset is written by two threads.
C4_IoInsideOwnRange ==
    /\ \A i \in Threads : (reads[i] \cup writes[i]) \subseteq Range(i)
    /\ \A i, j \in Threads : i # j => writes[i] \cap writes[j] = {}

\* C4 witness: two threads have both written.
C4_Witness ==
    \E i, j \in Threads : i # j /\ writes[i] # {} /\ writes[j] # {}

\* C5: on an empty source, with at least one thread, no thread ever reads,
\* writes or sends, each ends in its first turn of the loop, the renderer
\* receives nothing, and the target, once opened, is empty.
C5_EmptySource ==
    (Len(source) = 0 /\ thread_count >= 1)
    => /\ \A i \in Threads :
            /\ wpc[i] \in {"unspawned", "loop", "done"}
            /\ reads[i] = {} /\ writes[i] = {} /\ sent[i] = <<>>
            /\ fault[i] = "none"
            /\ offset[i] = 0
       /\ queue = <<>>
       /\ consumed = <<>>
       /\ target_opened => target = <<>>

\* C5 witness: cp has returned Ok on an empty source copied by two threads.
C5_Witness ==
    /\ Len(source) = 0
    /\ thread_count = 2
    /\ cpc = "done"
    /\ result = "ok"
    /\ \A i \in Threads : wpc[i] = "done"

\* C6: however report_status returns once it has hidden the cursor and saved
\* its position (the channel closed, or a cursor move or flush failed inside
\* the loop), the position has been restored and the cursor is shown again.
C6_TerminalRestoredOnEveryExit ==
    (rpc = "interrupted" \/ (rpc = "closed" /\ result # "err"))
    => (~cursor_hidden /\ ~position_saved)

\* C7: the renderer's loop ends by channel closure only when every thread has
\* ended, no Sender is left and no Status is queued; and when every thread
\* has ended and the queue is empty, the loop is able to end: cp's own Sender
\* does not hold the channel open.
C7_LoopEndsExactlyOnClosure ==
    /\ rpc = "closed"
        => /\ \A i \in Threads : Terminated(i)
           /\ queue = <<>>
           /\ ~tx_alive
           /\ \A i \in Threads : Len(ConsumedFrom(i)) = Len(sent[i])
    /\ (rpc = "loop" /\ queue = <<>> /\ \A i \in Threads : Terminated(i))
        => ENABLED ReportClosed

\* C7 witness: the loop has ended by closure after a thread that returned and
\* a thread that panicked, with a Status received.
C7_Witness ==
    /\ rpc = "closed"
    /\ consumed # <<>>
    /\ \E i, j \in Threads : wpc[i] = "done" /\ wpc[j] = "panicked"

\* C8: the Status values the renderer receives from one thread are, in order,
\* the first ones that thread sent, and their offsets strictly increase.
C8_PerThreadFifo ==
    \A i \in Threads :
        /\ IsPrefix(ConsumedFrom(i), sent[i])
        /\ StrictlyIncreasingOffsets(sent[i])
        /\ StrictlyIncreasingOffsets(ConsumedFrom(i))

\* C8 witness: a thread has had two Status values received while the merged
\* stream of all threads is not in increasing order of offset.
C8_Witness ==
    /\ \E i \in Threads : Len(ConsumedFrom(i)) >= 2
    /\ \E k \in 1 .. (Len(consumed) - 1) :
        /\ consumed[k].offset > consumed[k + 1].offset
        /\ consumed[k].thread_idx # consumed[k + 1].thread_idx

\* C9: once planned, the effective buffer_size is at most
\* total_bytes_per_thread, the floor of source_file_len / thread_count, and at
\* least 1 whenever total_bytes_per_thread is.
C9_EffectiveBufferBounds ==
    (cpc = "spawn")
    => /\ total_bytes_per_thread * thread_count <= source_file_len
       /\ source_file_len < (total_bytes_per_thread + 1) * thread_count
       /\ buffer_size <= total_bytes_per_thread
       /\ buffer_size <= config_buffer_size
       /\ total_bytes_per_thread >= 1 => buffer_size >= 1

\* C9 witness: the requested buffer was larger than a thread's share and has
\* been clamped to it.
C9_Witness ==
    /\ cpc = "spawn"
    /\ total_bytes_per_thread >= 1
    /\ config_buffer_size > total_bytes_per_thread
    /\ buffer_size = total_bytes_per_thread

\* C10: a thread stopped by an I/O error does no further I/O; cp can always
\* go on; and when cp ends with no terminal call having failed, the channel
\* has closed, every thread is joined, the result is Ok, and every thread
\* that met no error or end of input has moved its offset to the end of its
\* range, which the target then holds as the source does if its writes were
\* all stored in full.
C10_IoErrorFatalToThatThreadOnly ==
    /\ \A i \in Threads :
        IoFailed(i) => (wpc[i] = "panicked" /\ ~io_after_fault[i])
    /\ (\E i \in Threads : IoFailed(i))
        => /\ cpc # "done" => ENABLED Next
           /\ (cpc = "done" /\ rpc \notin {"refused", "interrupted"}
                    /\ ~(rpc = "closed" /\ result = "err"))
                => /\ result = "ok"
                   /\ rpc = "closed"
                   /\ join_i = thread_count
                   /\ \A j \in Threads :
                        /\ Terminated(j)
                        /\ fault[j] = "none" =>
                                offset[j] = last_byte_index_to_read[j]
                        /\ (fault[j] = "none" /\ ~short_write[j]) =>
                                \A o \in Range(j) :
                                    /\ o < Len(target)
                                    /\ target[o + 1] = source[o + 1]

\* C10 witness: cp has returned Ok although one thread was stopped by an I/O
\* error, another having copied its whole range.
C10_Witness ==
    /\ cpc = "done"
    /\ result = "ok"
    /\ \E i, j \in Threads :
        /\ IoFailed(i)
        /\ fault[j] = "none"
        /\ writes[j] = Range(j)
        /\ writes[j] # {}

\* The offsets of the target that write_at calls of thread i have stored.
StoredOffsets(i) ==
    UNION {(stored[i][k].offset) ..
                (stored[i][k].offset + stored[i][k].count - 1) :
           k \in 1 .. Len(stored[i])}
\* Thread i stopped inside its range on an I/O error or a zero-byte read.
StoppedEarly(i) ==
    /\ fault[i] \in {"read_err", "write_err", "eof"}
    /\ StartOffset(i) <= offset[i]
    /\ offset[i] < last_byte_index_to_read[i]
\* The target holds the source's bytes at every offset of lo .. hi - 1.
CopiedRange(lo, hi) ==
    \A o \in lo .. (hi - 1) : o < Len(target) /\ target[o + 1] = source[o + 1]

\* C11: when thread i has stopped on an I/O error or a zero-byte read with its
\* offset c inside its range, the target equals the source on [start_i, c)
\* and no offset of [c, end_i) has been stored by any thread.
C11_PartialFailureLeavesPrefix ==
    \A i \in Threads :
        StoppedEarly(i)
        => /\ CopiedRange(StartOffset(i), offset[i])
           /\ \A j \in Threads :
                StoredOffsets(j) \cap
                    (offset[i] .. (last_byte_index_to_read[i] - 1)) = {}

\* C11, restricted to threads whose writes were all stored in full: the same
\* statement then holds, so the short write is all that breaks it.
C11_PrefixWhenWritesAreFull ==
    \A i \in Threads :
        (StoppedEarly(i) /\ ~short_write[i])
        => /\ CopiedRange(StartOffset(i), offset[i])
           /\ \A j \in Threads :
                StoredOffsets(j) \cap
                    (offset[i] .. (last_byte_index_to_read[i] - 1)) = {}

\* C12: whenever cp has returned, Ok or Err, after spawning threads, every
\* spawned thread has ended and has been joined.
C12_AllJoinedBeforeReturn ==
    (cpc = "done" /\ result \in {"ok", "err"} /\ spawn_i > 0)
    => /\ join_i = thread_count
       /\ \A i \in Threads : Terminated(i)

\* C13: when report_status has returned an error and dropped the Receiver
\* before the channel closed, a thread that ends without an I/O error or a
\* zero-byte read of its own (the buffer being at least 1) has still moved
\* its offset to the end of its range.
C13_CopyIndependentOfReporting ==
    \A i \in Threads :
        ( /\ rpc \in {"refused", "interrupted"}
          /\ Terminated(i)
          /\ fault[i] \notin {"read_err", "write_err", "eof"}
          /\ buffer_size >= 1 )
        => offset[i] = last_byte_index_to_read[i]

\* The Status values of thread i still in the channel, in order.
QueuedFrom(i) == SelectSeq(queue, LAMBDA st : st.thread_idx = i)

\* C14: as long as report_status has not failed, the Status values a thread
\* has sent are, one for one and in order, its write_at calls that returned
\* Ok, each carrying the offset written at and the count returned, the last
\* write alone being still unreported while the thread is between write_at
\* and send (so never at its next read_at); what the renderer has received
\* from a thread, followed by what is still queued, is exactly what it sent;
\* and when the loop has ended on the closed channel, everything sent has
\* been received, once.
C14_EventsMatchWrites ==
    rpc \notin {"refused", "interrupted"}
    => /\ \A i \in Threads :
            /\ Len(stored[i]) = Len(sent[i]) + (IF wpc[i] = "send" THEN 1 ELSE 0)
            /\ \A k \in 1 .. Len(sent[i]) :
                /\ sent[i][k].thread_idx = i
                /\ sent[i][k].offset = stored[i][k].offset
                /\ sent[i][k].bytes_written = stored[i][k].count
            /\ wpc[i] = "send"
                => /\ stored[i][Len(stored[i])].offset = offset[i]
                   /\ stored[i][Len(stored[i])].count = bytes_written[i]
            /\ rx_alive => ConsumedFrom(i) \o QueuedFrom(i) = sent[i]
            /\ rpc = "closed" => ConsumedFrom(i) = sent[i]
       /\ \A k \in 1 .. Len(consumed) : consumed[k].thread_idx \in Threads
       /\ rpc = "closed" => queue = <<>>

\* C14 witness: cp has returned Ok after a thread sent two Status values, one
\* of them for a write that stored less than it was given.
C14_Witness ==
    /\ cpc = "done"
    /\ result = "ok"
    /\ \E i \in Threads :
        /\ Len(sent[i]) >= 2
        /\ short_write[i]
        /\ ConsumedFrom(i) = sent[i]

\* C15: under fair scheduling cp ends and stays ended, with the renderer's
\* loop over and every spawned thread ended; and each completed turn of a
\* thread's loop moves its offset strictly forward, never past the end of its
\* range, no other step of a running thread moving it.
C15_Termination ==
    /\ <>[]( /\ cpc = "done"
             /\ rpc # "loop"
             /\ \A i \in Threads : wpc[i] \in {"unspawned", "done", "panicked"} )
    /\ [][ \A i \in Threads :
            Running(i)
            => IF wpc[i] = "send" /\ wpc'[i] = "loop"
               THEN /\ offset[i] < offset'[i]
                    /\ offset'[i] <= last_byte_index_to_read[i]
               ELSE offset'[i] = offset[i] ]_vars

\* C15 witness: cp has returned Ok with two threads ended, one of them after
\* two turns of its loop, and the channel closed.
C15_Witness ==
    /\ cpc = "done"
    /\ result = "ok"
    /\ rpc = "closed"
    /\ thread_count = 2
    /\ \A i \in Threads : wpc[i] = "done"
    /\ \E i \in Threads : Len(sent[i]) >= 2

\* C16: whatever counts from 1 to bytes_to_read its read_at calls returned, a
\* thread that has ended with an effective buffer of at least 1 and without
\* any error or zero-byte read has its offset at the end of its range, and the
\* target holds the source's bytes over the whole range.
C16_ShortReadsAbsorbed ==
    \A i \in Threads :
        (Terminated(i) /\ buffer_size >= 1 /\ fault[i] = "none")
        => /\ offset[i] = last_byte_index_to_read[i]
           /\ CopiedRange(StartOffset(i), last_byte_index_to_read[i])

\* C16, restricted to threads whose writes were all stored in full: the same
\* statement then holds, short reads included.
C16_AbsorbedWhenWritesAreFull ==
    \A i \in Threads :
        (Terminated(i) /\ buffer_size >= 1 /\ fault[i] = "none"
            /\ ~short_write[i])
        => /\ offset[i] = last_byte_index_to_read[i]
           /\ CopiedRange(StartOffset(i), last_byte_index_to_read[i])

\* C17: for each consumed event the renderer draws at column
\* col + floor(terminal_col_count * offset / source_file_len), on the row
\* captured at the start, max(1, floor(terminal_col_count * bytes_written /
\* source_file_len)) blocks; so at least one block, and the column is less
\* than terminal_col_count past col. Fails: the f64 quotient is rounded
\* before it is multiplied, and the product can fall short of the floor.
C17_DrawnAtExactFloor ==
    \A k \in 1 .. Len(drawn) :
        LET width == terminal_col_count
            status == consumed[k]
        IN  /\ drawn[k].col =
                    col + (width * status.offset) \div source_file_len
            /\ drawn[k].row = row
            /\ drawn[k].count =
                    Max(1, (width * status.bytes_written) \div source_file_len)
            /\ drawn[k].count >= 1
            /\ drawn[k].col - col \in 0 .. (width - 1)

\* What does hold of the drawing: the row, at least one block, a column
\* inside the width, and a column and count at most one short of the floors.
C17_DrawnWithinOneOfFloor ==
    \A k \in 1 .. Len(drawn) :
        LET width == terminal_col_count
            status == consumed[k]
            at == (width * status.offset) \div source_file_len
            blocks == (width * status.bytes_written) \div source_file_len
        IN  /\ drawn[k].col - col \in {at - 1, at}
            /\ drawn[k].row = row
            /\ drawn[k].count \in {Max(1, blocks - 1), Max(1, blocks)}
            /\ drawn[k].col - col \in 0 .. (width - 1)

\* C18: when the renderer's loop ends on the closed channel, every thread
\* has ended (its Sender goes with it, after its last write_at returned), so
\* no read_at or write_at is pending or still to come: from then on the
\* target's content and the offsets read and written no longer change.
C18_ClosureImpliesIoComplete ==
    /\ [](rpc = "closed" =>
            /\ spawn_i = thread_count
            /\ \A i \in Threads : Terminated(i))
    /\ [][rpc = "closed" =>
            /\ target' = target
            /\ reads' = reads
            /\ writes' = writes
            /\ stored' = stored]_vars

\* The loop ended on closure after two threads copied a source in full, and
\* cp has since joined them and returned.
C18_Witness ==
    /\ rpc = "closed"
    /\ cpc = "done"
    /\ result = "ok"
    /\ thread_count = 2
    /\ join_i = 2
    /\ Len(source) >= 2
    /\ target = source

\* The offsets a Status reports as written: [offset, offset + bytes_written).
EventInterval(st) == st.offset .. (st.offset + st.bytes_written - 1)

RECURSIVE SumBytesWritten(_)
SumBytesWritten(q) ==
    IF q = <<>> THEN 0 ELSE Head(q).bytes_written + SumBytesWritten(Tail(q))

\* The events of thread i tile its range.
TilesRange(i) ==
    /\ \A j, k \in 1 .. Len(sent[i]) :
            j # k => EventInterval(sent[i][j]) \cap EventInterval(sent[i][k]) = {}
    /\ UNION {EventInterval(sent[i][k]) : k \in 1 .. Len(sent[i])}
            = StartOffset(i) .. (last_byte_index_to_read[i] - 1)
    /\ SumBytesWritten(sent[i])
            = last_byte_index_to_read[i] - StartOffset(i)

\* C19: for every thread that ends with offset = last_byte_index_to_read,
\* the intervals [offset, offset + bytes_written) of its events are pairwise
\* disjoint and cover exactly its range, the bytes_written sum to the range
\* length and every byte read was written, whatever count write_at returns.
\* Fails: a write_at that stores fewer bytes than it was given is not
\* retried, and offset advances by bytes_read.
C19_ProgressTilesRange ==
    \A i \in Threads :
        (Terminated(i) /\ offset[i] = last_byte_index_to_read[i])
        => /\ TilesRange(i)
           /\ CopiedRange(StartOffset(i), last_byte_index_to_read[i])

\* With every write_at storing all it was given, the events do tile.
C19_TilesWhenWritesAreFull ==
    \A i \in Threads :
        (Terminated(i) /\ offset[i] = last_byte_index_to_read[i]
            /\ ~short_write[i])
        => /\ TilesRange(i)
           /\ CopiedRange(StartOffset(i), last_byte_index_to_read[i])

\* C20: in every reachable state of every spawned thread,
\* StartOffset <= offset <= last_byte_index_to_read; so the i64 difference is
\* never negative and the slice never panics, bytes_to_read is at most
\* buffer_size, and buffer[0..bytes_to_read] and buffer[0..bytes_read] lie
\* within the buffer of buffer_size bytes.
C20_CursorInvariant ==
    \A i \in Threads :
        wpc[i] # "unspawned"
        => /\ StartOffset(i) <= offset[i]
           /\ offset[i] <= last_byte_index_to_read[i]
           /\ last_byte_index_to_read[i] - offset[i] >= 0
           /\ fault[i] # "slice"
           /\ BytesToRead(i) \in 0 .. buffer_size
           /\ DOMAIN buffer[i] = 0 .. (buffer_size - 1)
           /\ bytes_read[i] \in 0 .. buffer_size
           /\ wpc[i] \in {"write", "send"}
                => offset[i] + bytes_read[i] <= last_byte_index_to_read[i]

\* Both threads of a copy went round their loops to the end of their ranges,
\* one of them in more than one turn.
C20_Witness ==
    /\ thread_count = 2
    /\ \A i \in Threads :
            /\ wpc[i] = "done"
            /\ offset[i] = last_byte_index_to_read[i]
            /\ offset[i] > StartOffset(i)
    /\ \E i \in Threads : Len(sent[i]) >= 2

====
